---- MODULE Spec2Model ----
(***************************************************************************)
(* Model of the IAA compressor plugin (src/iaa_compressor.cc): the length  *)
(* framing (EncodeSize / DecodeSize), IAACompressor::Compress and          *)
(* IAACompressor::Uncompress with their thread-local job caches, and the   *)
(* QPL backend and the memory allocator as the collaborators the code      *)
(* calls.                                                                  *)
(***************************************************************************)
EXTENDS Integers, Sequences, FiniteSets, TLC

(***************************************************************************)
(* Machine integers.  size_t and uint32_t values reach 2^32 and beyond,    *)
(* which is more than one model integer holds, so a size is kept as two    *)
(* 16-bit limbs <<hi, lo>> standing for hi * 2^16 + lo.  A uint32_t has    *)
(* hi < 2^16; a size_t may have a larger hi.                               *)
(***************************************************************************)
Limb == 2 ^ 16

Sz(hi, lo) == <<hi, lo>>

SzNorm(hi, lo) == <<hi + (lo \div Limb), lo % Limb>>

SzOfNat(k) == SzNorm(0, k)

SzAdd(a, b) == SzNorm(a[1] + b[1], a[2] + b[2])

SzAddNat(a, k) == SzNorm(a[1], a[2] + k)

\* a - b for a >= b
SzSub(a, b) ==
    IF a[2] >= b[2] THEN <<a[1] - b[1], a[2] - b[2]>>
    ELSE <<a[1] - b[1] - 1, a[2] + Limb - b[2]>>

SzLess(a, b) == a[1] < b[1] \/ (a[1] = b[1] /\ a[2] < b[2])

SzLeq(a, b) == a = b \/ SzLess(a, b)

SzMin(a, b) == IF SzLess(a, b) THEN a ELSE b

SzZero == <<0, 0>>

\* std::numeric_limits<uint32_t>::max()
UINT32_MAX == <<Limb - 1, Limb - 1>>

\* Conversion of a size_t to uint32_t: the value modulo 2^32.
ToUint32(a) == <<a[1] % Limb, a[2]>>

(***************************************************************************)
(* Length framing.  PutVarint32 and GetVarint32Ptr are the base-128        *)
(* varint routines EncodeSize and DecodeSize call: seven payload bits per  *)
(* byte, least significant group first, bit 7 set on every byte but the    *)
(* last.                                                                   *)
(***************************************************************************)
Byte == 0 .. 255

\* The i-th 7-bit group (i = 0..4) of the uint32_t v: (v >> 7i) & 127.
Group7(v, i) ==
    CASE i = 0 -> v[2] % 128
      [] i = 1 -> (v[2] \div 128) % 128
      [] i = 2 -> (v[2] \div 16384) + (v[1] % 32) * 4
      [] i = 3 -> (v[1] \div 32) % 128
      [] i = 4 -> v[1] \div 4096

\* Number of bytes of the encoding: v < 2^7, 2^14, 2^21, 2^28, else 5.
VarintLength(v) ==
    IF v[1] = 0 /\ v[2] < 128 THEN 1
    ELSE IF v[1] = 0 /\ v[2] < 16384 THEN 2
    ELSE IF v[1] < 32 THEN 3
    ELSE IF v[1] < 4096 THEN 4
    ELSE 5

EncodeVarint32(v) ==
    [i \in 1 .. VarintLength(v) |->
        IF i < VarintLength(v) THEN Group7(v, i - 1) + 128 ELSE Group7(v, i - 1)]

\* PutVarint32(std::string* dst, uint32_t v): the size_t argument of
\* EncodeSize is converted to uint32_t at the call.
PutVarint32(dst, length) == dst \o EncodeVarint32(ToUint32(length))

\* EncodeSize returning the number of bytes it appended.
EncodeSizeAppended(length, output) ==
    LET out == PutVarint32(output, length)
    IN  [output |-> out, ret |-> SzOfNat(Len(out) - Len(output))]

\* EncodeSize(length, output): the new contents of output and the returned
\* uint32_t, which is output->size() after the append.
EncodeSize(length, output) ==
    LET out == PutVarint32(output, length)
    IN  [output |-> out, ret |-> ToUint32(SzOfNat(Len(out)))]

\* OrShifted with the shift done in 16 bits: the bits that belong to the upper
\* half of the result are lost.
OrShifted16(result, d, i) ==
    CASE i = 0 -> SzNorm(result[1], result[2] + d)
      [] i = 1 -> SzNorm(result[1], result[2] + d * 128)
      [] i = 2 -> SzNorm(result[1], result[2] + (d % 4) * 16384)
      [] i = 3 -> result
      [] i = 4 -> result

\* result |= (d << shift) on a uint32_t, for shift = 7 * i: the bits of d that
\* fall above bit 31 are lost.
OrShifted(result, d, i) ==
    CASE i = 0 -> SzNorm(result[1], result[2] + d)
      [] i = 1 -> SzNorm(result[1], result[2] + d * 128)
      [] i = 2 -> SzNorm(result[1] + (d \div 4), result[2] + (d % 4) * 16384)
      [] i = 3 -> SzNorm(result[1] + d * 32, result[2])
      [] i = 4 -> SzNorm(result[1] + (d % 16) * 4096, result[2])

\* GetVarint32Ptr(p, limit, value) on the bytes bytes[1..limit] that lie
\* between p and limit: at most five bytes are read; nullptr (ok = FALSE)
\* when the bytes run out, or five bytes all carry the continuation bit.
RECURSIVE GetVarint32From(_, _, _, _)
GetVarint32From(bytes, limit, i, result) ==
    IF i > 4 \/ i + 1 > limit THEN [ok |-> FALSE, value |-> SzZero, used |-> 0]
    ELSE IF bytes[i + 1] >= 128
         THEN GetVarint32From(bytes, limit, i + 1,
                              OrShifted(result, bytes[i + 1] % 128, i))
         ELSE [ok |-> TRUE, value |-> OrShifted(result, bytes[i + 1], i),
               used |-> i + 1]

GetVarint32Ptr(bytes, limit) == GetVarint32From(bytes, limit, 0, SzZero)

\* DecodeSize that reads the prefix without regard to input_length.
DecodeSizeUnbounded(bytes, input_length) ==
    LET r == GetVarint32Ptr(bytes, Len(bytes))
    IN  IF r.ok
        THEN [ok |-> TRUE, output_length |-> r.value, used |-> r.used,
              input_length |-> SzSub(input_length, SzOfNat(r.used))]
        ELSE [ok |-> FALSE, output_length |-> SzZero, used |-> 0,
              input_length |-> input_length]

\* DecodeSize(&input, &input_length, &output_length): on success the input
\* is advanced past the prefix and input_length reduced by the same amount;
\* on failure nothing is written.
DecodeSize(bytes, input_length) ==
    LET limit == IF SzLess(input_length, SzOfNat(Len(bytes)))
                 THEN input_length[2] ELSE Len(bytes)
        r == GetVarint32Ptr(bytes, limit)
    IN  IF r.ok
        THEN [ok |-> TRUE, output_length |-> r.value, used |-> r.used,
              input_length |-> SzSub(input_length, SzOfNat(r.used))]
        ELSE [ok |-> FALSE, output_length |-> SzZero, used |-> 0,
              input_length |-> input_length]

(***************************************************************************)
(* Configuration, statuses and the values the calls work on.               *)
(***************************************************************************)
qpl_path_auto == "auto"
qpl_path_hardware == "hw"
qpl_path_software == "sw"

\* execution_paths: the three values of options_.execution_path, which
\* index deflate_job_ and inflate_job_.
execution_paths == {qpl_path_auto, qpl_path_hardware, qpl_path_software}

dynamic_mode == "dynamic"
fixed_mode == "fixed"

compression_modes == {dynamic_mode, fixed_mode}

\* CompressionOptions::kDefaultCompressionLevel, the "default" sentinel.
kDefaultCompressionLevel == 32767

qpl_default_level == "qpl_default_level"
qpl_high_level == "qpl_high_level"

\* struct IAACompressorOptions with its default member values.
IAACompressorOptions ==
    [execution_path |-> qpl_path_auto, compression_mode |-> dynamic_mode,
     verify |-> FALSE, level |-> 0, parallel_threads |-> 1]

\* A mapping that takes every level up to 0 for the default.
GetQplLevelNonPositive(level) ==
    IF level <= 0 \/ level = kDefaultCompressionLevel
    THEN qpl_default_level
    ELSE qpl_high_level

\* GetQplLevel: 0 and the sentinel are the default level of the backend, any
\* other int its high level.
GetQplLevel(level) ==
    IF level = 0 \/ level = kDefaultCompressionLevel
    THEN qpl_default_level
    ELSE qpl_high_level

\* qpl_status values.  The two the code names, and the raw codes the tests
\* lock in, written as std::to_string prints them.
QPL_STS_OK == "QPL_STS_OK"
QPL_STS_QUEUES_ARE_BUSY_ERR == "QPL_STS_QUEUES_ARE_BUSY_ERR"
QPL_STS_EMPTY_INPUT == "50"
QPL_STS_BAD_STREAM == "214"
QPL_STS_MORE_OUTPUT_NEEDED == "QPL_STS_MORE_OUTPUT_NEEDED"
QPL_STS_INIT_ERR == "QPL_STS_INIT_ERR"

\* rocksdb::Status as the calls return it.
StatusOK == [code |-> "kOk", msg |-> <<>>]
Corruption(msg) == [code |-> "kCorruption", msg |-> msg]
NoStatus == [code |-> "none", msg |-> <<>>]

MEMORY_ALLOCATION_ERROR == <<"memory allocation error">>
QPL_STATUS(status) == <<"QPL status ", status>>
SIZE_DECODING_ERROR == <<"size decoding error">>
SIZE_MISMATCH == <<"size mismatch">>

\* A block of test data (GenerateBlock(length, seed)): its bytes are the first
\* `size` bytes of the stream of seed `seed`, so the first k bytes of a block
\* are the block of size k with the same seed.
Block(size, seed) == [size |-> size, seed |-> seed]

\* What a byte range holds when it holds no modelled data.
NoData == [size |-> SzZero, seed |-> "none"]

\* A std::string: its leading bytes, its size, and what lies at offset
\* Len(bytes): nothing modelled, or a deflate stream.
NoPayload == [kind |-> "none", data |-> NoData, clen |-> SzZero]
Payload(data, clen) == [kind |-> "deflate", data |-> data, clen |-> clen]
GarbagePayload == [kind |-> "garbage", data |-> NoData, clen |-> SzZero]

String(bytes, size, payload) == [bytes |-> bytes, size |-> size, payload |-> payload]

\* A char* result: never written, nullptr, or a buffer of `capacity` bytes.
Unset == [ptr |-> "unset", capacity |-> SzZero, data |-> NoData]
NullPtr == [ptr |-> "nullptr", capacity |-> SzZero, data |-> NoData]
Buffer(capacity, data) == [ptr |-> "buffer", capacity |-> capacity, data |-> data]

\* The slots of deflate_job_ and inflate_job_: an empty unique_ptr, job memory
\* on which qpl_init_job failed, job memory qpl_init_job initialised.
nullptr == "nullptr"
JobInitFailed == "init_failed"
JobInitialized == "initialized"

(***************************************************************************)
(* Bounds of the model.                                                    *)
(***************************************************************************)
\* Consecutive "queues busy" answers the backend gives to one call.
MaxBusy == 2

(***************************************************************************)
(* State.                                                                  *)
(***************************************************************************)
VARIABLES
    deflate_job_,         \* [thread -> [path -> slot]]: thread_local vector
    inflate_job_,         \* [thread -> [path -> slot]]: thread_local vector
    pc,                   \* [thread -> where its call stands]
    local,                \* [thread -> the locals of the call in progress]
    job,                  \* [thread -> the fields of the qpl_job in use]
    ret,                  \* [thread -> the Status the last call returned]
    data,                 \* [thread -> the caller's input block]
    initial_output,       \* [thread -> what its output string held before]
    compressed,           \* [thread -> the caller's std::string output]
    uncompressed,         \* [thread -> the caller's char* output]
    uncompressed_length,  \* [thread -> the caller's size_t output_length]
    log,                  \* [thread -> calls made by the call in progress]
    init_calls,           \* [thread -> kind -> path -> qpl_init_job calls]
    fr                    \* the framing round trip of SpecFraming

vars == <<deflate_job_, inflate_job_, pc, local, job, ret, data,
          initial_output, compressed,
          uncompressed, uncompressed_length, log, init_calls, fr>>

callerVars ==
    <<data, initial_output, compressed, uncompressed, uncompressed_length>>

cacheVars == <<deflate_job_, inflate_job_, init_calls>>

NoLocal == [op |-> "none"]

NoJob == [op |-> "none"]

NoLog ==
    [get_job_size |-> 0, make_unique |-> 0, init_job |-> 0, execute |-> 0,
     busy |-> 0, allocate |-> 0, context |-> "none", final_status |-> "none",
     total_out |-> SzZero,
     get_job_size_status |-> "none", init_job_status |-> "none"]

EmptyString == String(<<>>, SzZero, NoPayload)

UnsetLength == <<"unset">>

EmptyCache == [p \in execution_paths |-> nullptr]

InitThreads(threads) ==
    /\ deflate_job_ = [t \in threads |-> EmptyCache]
    /\ inflate_job_ = [t \in threads |-> EmptyCache]
    /\ pc = [t \in threads |-> "idle"]
    /\ local = [t \in threads |-> NoLocal]
    /\ job = [t \in threads |-> NoJob]
    /\ ret = [t \in threads |-> NoStatus]
    /\ data = [t \in threads |-> NoData]
    /\ initial_output = [t \in threads |-> <<>>]
    /\ compressed = [t \in threads |-> EmptyString]
    /\ uncompressed = [t \in threads |-> Unset]
    /\ uncompressed_length = [t \in threads |-> UnsetLength]
    /\ log = [t \in threads |-> NoLog]
    /\ init_calls = [t \in threads |->
                        [k \in {"deflate", "inflate"} |->
                            [p \in execution_paths |-> 0]]]

(***************************************************************************)
(* The execution-context lookup both calls make: deflate_job_ in Compress, *)
(* inflate_job_ in Uncompress.  env holds what qpl_get_job_size,           *)
(* std::make_unique and qpl_init_job answer if they are called.            *)
(***************************************************************************)
\* One instance of the vectors for all threads (static, not thread_local).
StaticInstance(t) == CHOOSE u \in DOMAIN pc : TRUE

\* static thread_local: the code of thread t names the instance of thread t.
ThreadLocal(t) == t

\* A cache of one slot.
SlotOfAuto(execution_path) == qpl_path_auto

\* deflate_job_[execution_path]: the slot of a path is the one at its index.
SlotOf(execution_path) == execution_path

\* The lookup that takes every slot for empty.
SlotAlwaysEmpty(slot) == TRUE

\* if (deflate_job_[execution_path] == nullptr)
SlotIsEmpty(slot) == slot = nullptr

\* The creation that does not look at the status of qpl_init_job.
GetJobUncheckedInit(slot, env) ==
    IF slot # nullptr
    THEN [slot |-> slot, ret |-> NoStatus,
          get_job_size |-> 0, make_unique |-> 0, init_job |-> 0,
          get_job_size_status |-> "none", init_job_status |-> "none"]
    ELSE IF env.get_job_size # QPL_STS_OK
    THEN [slot |-> slot, ret |-> Corruption(QPL_STATUS(env.get_job_size)),
          get_job_size |-> 1, make_unique |-> 0, init_job |-> 0,
          get_job_size_status |-> env.get_job_size, init_job_status |-> "none"]
    ELSE IF env.make_unique = "bad_alloc"
    THEN [slot |-> slot, ret |-> Corruption(MEMORY_ALLOCATION_ERROR),
          get_job_size |-> 1, make_unique |-> 1, init_job |-> 0,
          get_job_size_status |-> env.get_job_size, init_job_status |-> "none"]
    ELSE [slot |-> IF env.init_job = QPL_STS_OK THEN JobInitialized
                   ELSE JobInitFailed,
          ret |-> NoStatus,
          get_job_size |-> 1, make_unique |-> 1, init_job |-> 1,
          get_job_size_status |-> env.get_job_size,
          init_job_status |-> env.init_job]

\* Lines 128-147: the slot is filled before qpl_init_job runs and is left
\* filled when it fails.
GetJob(slot, env) ==
    IF ~SlotIsEmpty(slot)
    THEN [slot |-> slot, ret |-> NoStatus,
          get_job_size |-> 0, make_unique |-> 0, init_job |-> 0,
          get_job_size_status |-> "none", init_job_status |-> "none"]
    ELSE IF env.get_job_size # QPL_STS_OK
    THEN [slot |-> slot, ret |-> Corruption(QPL_STATUS(env.get_job_size)),
          get_job_size |-> 1, make_unique |-> 0, init_job |-> 0,
          get_job_size_status |-> env.get_job_size, init_job_status |-> "none"]
    ELSE IF env.make_unique = "bad_alloc"
    THEN [slot |-> slot, ret |-> Corruption(MEMORY_ALLOCATION_ERROR),
          get_job_size |-> 1, make_unique |-> 1, init_job |-> 0,
          get_job_size_status |-> env.get_job_size, init_job_status |-> "none"]
    ELSE IF env.init_job # QPL_STS_OK
    THEN [slot |-> JobInitFailed, ret |-> Corruption(QPL_STATUS(env.init_job)),
          get_job_size |-> 1, make_unique |-> 1, init_job |-> 1,
          get_job_size_status |-> env.get_job_size,
          init_job_status |-> env.init_job]
    ELSE [slot |-> JobInitialized, ret |-> NoStatus,
          get_job_size |-> 1, make_unique |-> 1, init_job |-> 1,
          get_job_size_status |-> env.get_job_size,
          init_job_status |-> env.init_job]

\* What the backend and the scratch allocation may answer.
BackendEnvs(statuses, allocs) ==
    [get_job_size : statuses, make_unique : allocs, init_job : statuses]

(***************************************************************************)
(* The backend: qpl_execute_job.                                           *)
(***************************************************************************)
\* ceil(n / 65535) of a size: n = 65535 * hi + (hi + lo).
CeilDiv65535(n) ==
    n[1] + ((n[1] + n[2]) \div 65535)
         + (IF (n[1] + n[2]) % 65535 # 0 THEN 1 ELSE 0)

\* Deflate of k bytes as stored blocks: 5 bytes of header per 65535 bytes.
StoredSize(k) == SzAdd(k, SzOfNat(5 * CeilDiv65535(k)))

\* Deflate of k compressible bytes: about one byte in 1024, and a header.
CompactSize(k) == SzMin(StoredSize(k), SzOfNat(k[1] * 64 + (k[2] \div 1024) + 5))

DeflateSizes(k) == {StoredSize(k), CompactSize(k)}

Answer(status, total_out, payload) ==
    [status |-> status, total_out |-> total_out, payload |-> payload]

\* A job on memory qpl_init_job did not initialise: the behaviour is not
\* defined, any status may come back, with nothing or everything written.
UndefinedAnswers(j) ==
    {Answer(s, n, GarbagePayload) :
        s \in {QPL_STS_OK, QPL_STS_INIT_ERR}, n \in {SzZero, j.available_out}}

\* qpl_op_compress on an initialised job: deflate of the available_in bytes
\* at next_in_ptr into the available_out bytes at next_out_ptr.
CompressAnswers(j) ==
    IF j.available_in = SzZero
    THEN {Answer(QPL_STS_EMPTY_INPUT, SzZero, NoPayload)}
    ELSE {IF SzLeq(cl, j.available_out)
          THEN Answer(QPL_STS_OK, cl,
                      Payload(Block(j.available_in, j.next_in_ptr.seed), cl))
          ELSE Answer(QPL_STS_MORE_OUTPUT_NEEDED, SzZero, NoPayload) :
          cl \in DeflateSizes(j.available_in)}

\* The bytes a deflate stream of a block of m bytes yields when only the
\* first avail of its clen bytes are there.
CutSize(m, avail) ==
    IF SzLeq(avail, SzOfNat(5)) THEN SzZero
    ELSE SzMin(SzSub(avail, SzOfNat(5)), SzSub(m, SzOfNat(1)))

\* The decompressed size of the stream at next_in_ptr, available_in long.
TrueSize(j) ==
    IF SzLess(j.available_in, j.next_in_ptr.clen)
    THEN CutSize(j.next_in_ptr.data.size, j.available_in)
    ELSE j.next_in_ptr.data.size

\* qpl_op_decompress on an initialised job.
DecompressAnswers(j) ==
    IF j.available_in = SzZero
    THEN {Answer(QPL_STS_EMPTY_INPUT, SzZero, NoPayload)}
    ELSE IF j.next_in_ptr.kind # "deflate"
    THEN {Answer(QPL_STS_BAD_STREAM, SzZero, NoPayload)}
    ELSE IF SzLeq(TrueSize(j), j.available_out)
    THEN {Answer(QPL_STS_OK, TrueSize(j),
                 Payload(Block(TrueSize(j), j.next_in_ptr.data.seed), SzZero))}
    ELSE {Answer(QPL_STS_MORE_OUTPUT_NEEDED, SzZero, NoPayload)}

BusyAnswer == Answer(QPL_STS_QUEUES_ARE_BUSY_ERR, SzZero, NoPayload)

\* Every answer qpl_execute_job may give to job j on a context in state
\* context, after busy "queues busy" answers in this call.
qpl_execute_job(j, context, busy) ==
    (IF busy < MaxBusy THEN {BusyAnswer} ELSE {})
    \cup (IF context # JobInitialized THEN UndefinedAnswers(j)
          ELSE IF j.op = "qpl_op_compress" THEN CompressAnswers(j)
          ELSE DecompressAnswers(j))

(***************************************************************************)
(* IAACompressor::Compress.                                                *)
(***************************************************************************)
\* The overhead with the division rounded down.
StoredBlockOverheadFloor(input_length) ==
    (input_length[1] + ((input_length[1] + input_length[2]) \div 65535)) * 5

\* (input_length / 65535 + (input_length % 65535 != 0)) * 5
StoredBlockOverhead(input_length) ==
    (input_length[1] + ((input_length[1] + input_length[2]) \div 65535)
       + (IF (input_length[1] + input_length[2]) % 65535 # 0 THEN 1 ELSE 0)) * 5

\* The capacity without the stored-block overhead.
OutputLengthNoOverhead(output_header_length, input_length) ==
    LET output_length == SzAdd(output_header_length, input_length)
    IN  IF SzLess(UINT32_MAX, output_length) THEN UINT32_MAX ELSE output_length

\* The size_t output_length, clamped to the largest uint32_t.
OutputLength(output_header_length, input_length) ==
    LET output_length ==
            SzAdd(SzAdd(output_header_length, input_length),
                  SzOfNat(StoredBlockOverhead(input_length)))
    IN  IF SzLess(UINT32_MAX, output_length) THEN UINT32_MAX ELSE output_length

\* std::string::resize(n) on a string whose leading bytes are modelled.
Resize(str, n) ==
    String(IF SzLess(n, SzOfNat(Len(str.bytes)))
           THEN SubSeq(str.bytes, 1, n[2]) ELSE str.bytes,
           n, str.payload)

\* The flags Compress sets on the job.
CompressFlags(options_) ==
    {"QPL_FLAG_FIRST", "QPL_FLAG_LAST", "QPL_FLAG_OMIT_CHECKSUMS"}
    \cup (IF ~options_.verify THEN {"QPL_FLAG_OMIT_VERIFY"} ELSE {})
    \cup (IF options_.compression_mode = dynamic_mode
          THEN {"QPL_FLAG_DYNAMIC_HUFFMAN"} ELSE {})

\* The mapping that takes every status for success.
CompressResultAlwaysOK(status) == StatusOK

\* The status a call maps to its result once the retry loop has ended.
CompressResult(status) ==
    IF status # QPL_STS_OK THEN Corruption(QPL_STATUS(status)) ELSE StatusOK

\* A loop that never runs again.
RetryNever(status) == FALSE

\* A loop that runs again on every status but ok.
RetryUnlessOK(status) == status # QPL_STS_OK

\* while (status == QPL_STS_QUEUES_ARE_BUSY_ERR): the loop runs again.
RetryExecute(status) == status = QPL_STS_QUEUES_ARE_BUSY_ERR

\* Lines 105-126: the prefix is written, the output sized, the level and the
\* path read.  The caller passes its block and its output string out0.
CompressEnter(t, options_, input, out0) ==
    /\ pc[t] = "idle"
    /\ LET enc == EncodeSize(input.size, out0)
           output_header_length == enc.ret
           output_length == OutputLength(output_header_length, input.size)
       IN  /\ compressed' = [compressed EXCEPT ![t] =
                                Resize(String(enc.output, SzOfNat(Len(enc.output)),
                                              NoPayload), output_length)]
           /\ local' = [local EXCEPT ![t] =
                           [op |-> "Compress", options_ |-> options_,
                            input |-> input, out0 |-> out0,
                            output_header_length |-> output_header_length,
                            output_length |-> output_length,
                            level |-> GetQplLevel(options_.level),
                            execution_path |-> options_.execution_path,
                            status |-> "none"]]
    /\ data' = [data EXCEPT ![t] = input]
    /\ initial_output' = [initial_output EXCEPT ![t] = out0]
    /\ uncompressed' = [uncompressed EXCEPT ![t] = Unset]
    /\ uncompressed_length' = [uncompressed_length EXCEPT ![t] = UnsetLength]
    /\ pc' = [pc EXCEPT ![t] = "Compress_job"]
    /\ job' = [job EXCEPT ![t] = NoJob]
    /\ ret' = [ret EXCEPT ![t] = NoStatus]
    /\ log' = [log EXCEPT ![t] = NoLog]
    /\ UNCHANGED <<cacheVars, fr>>

\* Lines 128-147: the deflate job of the path is looked up, and created if
\* the slot is empty.
CompressGetJob(t, env) ==
    /\ pc[t] = "Compress_job"
    /\ LET path == local[t].execution_path
           g == GetJob(deflate_job_[ThreadLocal(t)][SlotOf(path)], env)
       IN  /\ deflate_job_' =
                  [deflate_job_ EXCEPT ![ThreadLocal(t)][SlotOf(path)] = g.slot]
           /\ init_calls' = [init_calls EXCEPT ![t]["deflate"][path] = @ + g.init_job]
           /\ log' = [log EXCEPT ![t].get_job_size = @ + g.get_job_size,
                                 ![t].make_unique = @ + g.make_unique,
                                 ![t].init_job = @ + g.init_job,
                                 ![t].get_job_size_status = g.get_job_size_status,
                                 ![t].init_job_status = g.init_job_status]
           /\ ret' = [ret EXCEPT ![t] = g.ret]
           /\ pc' = [pc EXCEPT ![t] =
                        IF g.ret = NoStatus THEN "Compress_configure" ELSE "done"]
    /\ UNCHANGED <<inflate_job_, local, job, callerVars, fr>>

\* Lines 149-171: the job fields are set; available_in and available_out
\* are uint32_t fields.
CompressConfigure(t) ==
    /\ pc[t] = "Compress_configure"
    /\ job' = [job EXCEPT ![t] =
                  [next_in_ptr |-> local[t].input,
                   available_in |-> ToUint32(local[t].input.size),
                   next_out_ptr |-> local[t].output_header_length,
                   available_out |->
                       ToUint32(SzSub(local[t].output_length,
                                      local[t].output_header_length)),
                   level |-> local[t].level,
                   op |-> "qpl_op_compress",
                   flags |-> CompressFlags(local[t].options_),
                   total_out |-> SzZero]]
    /\ local' = [local EXCEPT ![t].status = QPL_STS_QUEUES_ARE_BUSY_ERR]
    /\ pc' = [pc EXCEPT ![t] = "Compress_execute"]
    /\ UNCHANGED <<cacheVars, ret, callerVars, log, fr>>

\* Lines 172-174: one round of the retry loop; the thread stands here only
\* while its status is "queues busy".
CompressExecute(t) ==
    /\ pc[t] = "Compress_execute"
    /\ \E a \in qpl_execute_job(job[t],
                                deflate_job_[ThreadLocal(t)][SlotOf(local[t].execution_path)],
                                log[t].busy) :
          /\ local' = [local EXCEPT ![t].status = a.status]
          /\ job' = [job EXCEPT ![t].total_out =
                        IF a.status = QPL_STS_QUEUES_ARE_BUSY_ERR THEN @
                        ELSE a.total_out]
          /\ compressed' = [compressed EXCEPT ![t].payload =
                               IF a.status = QPL_STS_QUEUES_ARE_BUSY_ERR THEN @
                               ELSE a.payload]
          /\ log' = [log EXCEPT
                        ![t].execute = @ + 1,
                        ![t].busy = IF a.status = QPL_STS_QUEUES_ARE_BUSY_ERR
                                    THEN @ + 1 ELSE @,
                        ![t].context =
                            deflate_job_[ThreadLocal(t)][SlotOf(local[t].execution_path)],
                        ![t].final_status = a.status,
                        ![t].total_out = a.total_out]
          /\ pc' = [pc EXCEPT ![t] =
                       IF RetryExecute(a.status) THEN "Compress_execute"
                       ELSE "Compress_return"]
    /\ UNCHANGED <<cacheVars, ret, data, initial_output, uncompressed, uncompressed_length, fr>>

\* Lines 176-183: the status is mapped; on success the output is cut to the
\* prefix and the bytes written (uint32_t arithmetic).
CompressReturn(t) ==
    /\ pc[t] = "Compress_return"
    /\ ret' = [ret EXCEPT ![t] = CompressResult(local[t].status)]
    /\ compressed' = [compressed EXCEPT ![t] =
                         IF CompressResult(local[t].status) = StatusOK
                         THEN Resize(@, ToUint32(SzAdd(local[t].output_header_length,
                                                       job[t].total_out)))
                         ELSE @]
    /\ pc' = [pc EXCEPT ![t] = "done"]
    /\ UNCHANGED <<cacheVars, local, job, data, initial_output, uncompressed,
                   uncompressed_length, log, fr>>

(***************************************************************************)
(* The input a caller hands to Uncompress: the bytes of a string it holds, *)
(* as they are or overwritten, and a length no longer than the string.     *)
(***************************************************************************)
\* for (i = 0; i < 4; i++) compressed[i] = 0, as the size-mismatch test does.
ZeroFirst4(str) ==
    String([i \in 1 .. Len(str.bytes) |-> IF i <= 4 THEN 0 ELSE str.bytes[i]],
           str.size,
           IF Len(str.bytes) < 4 /\ str.payload.kind = "deflate"
           THEN GarbagePayload ELSE str.payload)

\* The length prefix replaced by the encoding of q, of the same byte length.
RewritePrefix(str, q) == String(EncodeVarint32(q), str.size, str.payload)

Overwritten(str, values) ==
    {str}
    \cup (IF SzLeq(SzOfNat(4), str.size) THEN {ZeroFirst4(str)} ELSE {})
    \cup {RewritePrefix(str, q) :
            q \in {v \in values : /\ str.payload.kind = "deflate"
                                  /\ VarintLength(v) = Len(str.bytes)}}

\* Lengths up to the size of the string: none, one byte, the leading bytes,
\* the leading bytes and eight more, all.
InputLengths(str) ==
    {l \in {SzZero, SzOfNat(1), SzOfNat(Len(str.bytes)),
            SzOfNat(Len(str.bytes) + 8), str.size} : SzLeq(l, str.size)}

UncompressInputs(str, values) ==
    {[str |-> s, input_length |-> l] :
        s \in Overwritten(str, values), l \in InputLengths(str)}

(***************************************************************************)
(* IAACompressor::Uncompress.                                              *)
(***************************************************************************)
\* The buffer of a successful allocation kept in a local and never stored
\* in *output.
AllocateIntoLocal(size, allocator) ==
    CASE allocator = "default" -> [output |-> Unset, thrown |-> FALSE]
      [] allocator = "null" -> [output |-> NullPtr, thrown |-> FALSE]
      [] allocator = "throw" -> [output |-> Unset, thrown |-> TRUE]

\* Allocate(size, allocator), and what the try block makes of it: the
\* allocator returns a buffer, returns nullptr, or throws std::bad_alloc.
Allocate(size, allocator) ==
    CASE allocator = "default" -> [output |-> Buffer(size, NoData), thrown |-> FALSE]
      [] allocator = "null" -> [output |-> NullPtr, thrown |-> FALSE]
      [] allocator = "throw" -> [output |-> Unset, thrown |-> TRUE]

\* The check that only catches the exception.
AllocationThrew(a) == a.thrown

\* Lines 196-203: *output is assigned unless Allocate throws; a nullptr and
\* a bad_alloc both end the call.
AllocationFailed(a) == a.thrown \/ a.output.ptr = "nullptr"

\* The stream that lies at the input pointer once DecodeSize has advanced it
\* by `used` bytes.
InputStream(str, used) ==
    IF used = Len(str.bytes) THEN str.payload ELSE GarbagePayload

\* The mapping without the comparison of the byte count.
UncompressResultNoSizeCheck(status, total_out, encoded_output_length) ==
    IF status # QPL_STS_OK THEN Corruption(QPL_STATUS(status)) ELSE StatusOK

\* Lines 247-251: the mapping of the final status and the byte count.
UncompressResult(status, total_out, encoded_output_length) ==
    IF status # QPL_STS_OK THEN Corruption(QPL_STATUS(status))
    ELSE IF total_out # encoded_output_length THEN Corruption(SIZE_MISMATCH)
    ELSE StatusOK

\* Lines 186-203: the prefix is decoded and the output buffer allocated.
UncompressEnter(t, options_, inp, allocator) ==
    /\ pc[t] = "idle"
    /\ LET dec == DecodeSize(inp.str.bytes, inp.input_length)
           a == Allocate(dec.output_length, allocator)
           failed == IF ~dec.ok THEN Corruption(SIZE_DECODING_ERROR)
                     ELSE IF AllocationFailed(a)
                     THEN Corruption(MEMORY_ALLOCATION_ERROR)
                     ELSE NoStatus
       IN  /\ local' = [local EXCEPT ![t] =
                           [op |-> "Uncompress", options_ |-> options_,
                            str |-> inp.str, given_length |-> inp.input_length,
                            allocator |-> allocator, decoded |-> dec.ok,
                            input |-> InputStream(inp.str, dec.used),
                            input_length |-> dec.input_length,
                            encoded_output_length |-> dec.output_length,
                            execution_path |-> options_.execution_path,
                            status |-> "none"]]
           /\ uncompressed' = [uncompressed EXCEPT ![t] =
                                  IF dec.ok THEN a.output ELSE Unset]
           /\ log' = [log EXCEPT ![t] =
                         [NoLog EXCEPT !.allocate = IF dec.ok THEN 1 ELSE 0]]
           /\ ret' = [ret EXCEPT ![t] = failed]
           /\ pc' = [pc EXCEPT ![t] =
                        IF failed = NoStatus THEN "Uncompress_job" ELSE "done"]
    /\ uncompressed_length' = [uncompressed_length EXCEPT ![t] = UnsetLength]
    /\ job' = [job EXCEPT ![t] = NoJob]
    /\ UNCHANGED <<cacheVars, data, initial_output, compressed, fr>>

\* Lines 205-227: the inflate job of the path is looked up, and created if
\* the slot is empty.
UncompressGetJob(t, env) ==
    /\ pc[t] = "Uncompress_job"
    /\ LET path == local[t].execution_path
           g == GetJob(inflate_job_[ThreadLocal(t)][SlotOf(path)], env)
       IN  /\ inflate_job_' =
                  [inflate_job_ EXCEPT ![ThreadLocal(t)][SlotOf(path)] = g.slot]
           /\ init_calls' = [init_calls EXCEPT ![t]["inflate"][path] = @ + g.init_job]
           /\ log' = [log EXCEPT ![t].get_job_size = @ + g.get_job_size,
                                 ![t].make_unique = @ + g.make_unique,
                                 ![t].init_job = @ + g.init_job,
                                 ![t].get_job_size_status = g.get_job_size_status,
                                 ![t].init_job_status = g.init_job_status]
           /\ ret' = [ret EXCEPT ![t] = g.ret]
           /\ pc' = [pc EXCEPT ![t] =
                        IF g.ret = NoStatus THEN "Uncompress_configure" ELSE "done"]
    /\ UNCHANGED <<deflate_job_, local, job, callerVars, fr>>

\* Lines 229-242: the job fields are set.
UncompressConfigure(t) ==
    /\ pc[t] = "Uncompress_configure"
    /\ job' = [job EXCEPT ![t] =
                  [next_in_ptr |-> local[t].input,
                   available_in |-> ToUint32(local[t].input_length),
                   next_out_ptr |-> SzZero,
                   available_out |-> local[t].encoded_output_length,
                   level |-> "unset",
                   op |-> "qpl_op_decompress",
                   flags |-> {"QPL_FLAG_FIRST", "QPL_FLAG_LAST",
                              "QPL_FLAG_OMIT_CHECKSUMS"},
                   total_out |-> SzZero]]
    /\ local' = [local EXCEPT ![t].status = QPL_STS_QUEUES_ARE_BUSY_ERR]
    /\ pc' = [pc EXCEPT ![t] = "Uncompress_execute"]
    /\ UNCHANGED <<cacheVars, ret, callerVars, log, fr>>

\* Lines 243-245: one round of the retry loop; the thread stands here only
\* while its status is "queues busy".
UncompressExecute(t) ==
    /\ pc[t] = "Uncompress_execute"
    /\ \E a \in qpl_execute_job(job[t],
                                inflate_job_[ThreadLocal(t)][SlotOf(local[t].execution_path)],
                                log[t].busy) :
          /\ local' = [local EXCEPT ![t].status = a.status]
          /\ job' = [job EXCEPT ![t].total_out =
                        IF a.status = QPL_STS_QUEUES_ARE_BUSY_ERR THEN @
                        ELSE a.total_out]
          /\ uncompressed' = [uncompressed EXCEPT ![t].data =
                                 IF a.status = QPL_STS_QUEUES_ARE_BUSY_ERR THEN @
                                 ELSE a.payload.data]
          /\ log' = [log EXCEPT
                        ![t].execute = @ + 1,
                        ![t].busy = IF a.status = QPL_STS_QUEUES_ARE_BUSY_ERR
                                    THEN @ + 1 ELSE @,
                        ![t].context =
                            inflate_job_[ThreadLocal(t)][SlotOf(local[t].execution_path)],
                        ![t].final_status = a.status,
                        ![t].total_out = a.total_out]
          /\ pc' = [pc EXCEPT ![t] =
                       IF RetryExecute(a.status) THEN "Uncompress_execute"
                       ELSE "Uncompress_return"]
    /\ UNCHANGED <<cacheVars, ret, data, initial_output, compressed, uncompressed_length, fr>>

\* Lines 247-256: the status and the byte count are mapped; on success the
\* length is written.
UncompressReturn(t) ==
    /\ pc[t] = "Uncompress_return"
    /\ LET r == UncompressResult(local[t].status, job[t].total_out,
                                 local[t].encoded_output_length)
       IN  /\ ret' = [ret EXCEPT ![t] = r]
           /\ uncompressed_length' =
                  [uncompressed_length EXCEPT ![t] =
                      IF r = StatusOK THEN job[t].total_out ELSE @]
    /\ pc' = [pc EXCEPT ![t] = "done"]
    /\ UNCHANGED <<cacheVars, local, job, data, initial_output, compressed, uncompressed, log, fr>>

(***************************************************************************)
(* The caller between two calls: it has read the Status and the outputs of *)
(* the call that returned, frees the decompressed buffer as the tests do   *)
(* (delete[] uncompressed) and keeps its block and its compressed string.  *)
(* The locals of the call are gone with its stack frame.                   *)
(***************************************************************************)
CallerContinues(t) ==
    /\ pc[t] = "done"
    /\ pc' = [pc EXCEPT ![t] = "idle"]
    /\ local' = [local EXCEPT ![t] = NoLocal]
    /\ job' = [job EXCEPT ![t] = NoJob]
    /\ ret' = [ret EXCEPT ![t] = NoStatus]
    /\ log' = [log EXCEPT ![t] = NoLog]
    /\ uncompressed' = [uncompressed EXCEPT ![t] = Unset]
    /\ uncompressed_length' = [uncompressed_length EXCEPT ![t] = UnsetLength]
    /\ UNCHANGED <<cacheVars, data, initial_output, compressed, fr>>

(***************************************************************************)
(* The framing round trip on its own: EncodeSize on an empty buffer, then  *)
(* DecodeSize on the first input_length bytes of what it produced.         *)
(***************************************************************************)
FramingSizes ==
    {Sz(hi, lo) : hi \in {0, 1, 31, 32, 4095, 4096, 65535},
                  lo \in {0, 1, 127, 128, 16383, 16384, 65535}}

FramingOff == [pc |-> "off"]

FramingEncode ==
    /\ fr.pc = "start"
    /\ LET enc == EncodeSize(fr.n, <<>>)
       IN  fr' = [fr EXCEPT !.pc = "encoded", !.output = enc.output,
                            !.output_header_length = enc.ret]
    /\ UNCHANGED <<cacheVars, pc, local, job, ret, callerVars, log>>

FramingDecode(input_length) ==
    /\ fr.pc = "encoded"
    /\ fr' = [fr EXCEPT !.pc = "decoded", !.input_length = input_length,
                        !.dec = DecodeSize(fr.output, SzOfNat(input_length))]
    /\ UNCHANGED <<cacheVars, pc, local, job, ret, callerVars, log>>

FramingInit ==
    /\ InitThreads({})
    /\ fr \in {[pc |-> "start", n |-> n, output |-> <<>>,
                output_header_length |-> SzZero, input_length |-> 0,
                dec |-> DecodeSize(<<>>, SzZero)] : n \in FramingSizes}

FramingNext ==
    \/ FramingEncode
    \/ \E input_length \in 0 .. Len(fr.output) : FramingDecode(input_length)

SpecFraming == FramingInit /\ [][FramingNext]_vars

(***************************************************************************)
(* The calls of one thread, with every answer the backend and the          *)
(* allocators may give.                                                    *)
(***************************************************************************)
Threads == {"t1"}

\* Configurations of the codec instances whose calls are made.
Codecs ==
    {[IAACompressorOptions EXCEPT !.execution_path = qpl_path_software],
     [IAACompressorOptions EXCEPT !.execution_path = qpl_path_software,
                                  !.compression_mode = fixed_mode,
                                  !.verify = TRUE, !.level = 1],
     [IAACompressorOptions EXCEPT !.execution_path = qpl_path_hardware,
                                  !.level = kDefaultCompressionLevel]}

\* Sizes of the blocks compressed: empty, the varint and stored-block
\* boundaries, and the sizes around 2^32.
BlockSizes ==
    {Sz(0, 0), Sz(0, 1), Sz(0, 65535), Sz(1, 0), Sz(65535, 65535),
     Sz(65536, 1)}

Blocks == {Block(n, "seed0") : n \in BlockSizes}

\* What the caller's output string holds when Compress is called.
InitialOutputs == {<<>>, <<120>>}

\* Values a caller overwrites a length prefix with.
PrefixValues == {Sz(0, 0), Sz(0, 2), Sz(0, 65534), Sz(1, 1)}

Allocators == {"default", "null", "throw"}

Envs == BackendEnvs({QPL_STS_OK, QPL_STS_INIT_ERR}, {"ok", "bad_alloc"})

Init == InitThreads(Threads) /\ fr = FramingOff

Next ==
    \E t \in Threads :
        \/ \E o \in Codecs, b \in Blocks, out0 \in InitialOutputs :
              CompressEnter(t, o, b, out0)
        \/ \E env \in Envs : CompressGetJob(t, env)
        \/ CompressConfigure(t)
        \/ CompressExecute(t)
        \/ CompressReturn(t)
        \/ \E o \in Codecs, a \in Allocators,
              inp \in UncompressInputs(compressed[t], PrefixValues) :
              UncompressEnter(t, o, inp, a)
        \/ \E env \in Envs : UncompressGetJob(t, env)
        \/ UncompressConfigure(t)
        \/ UncompressExecute(t)
        \/ UncompressReturn(t)
        \/ CallerContinues(t)

Spec == Init /\ [][Next]_vars

(***************************************************************************)
(* Two threads calling concurrently, each step of a call one step of the   *)
(* interleaving; their calls are on the software path, by two codec        *)
(* instances, each Uncompress on all of the string the thread holds.       *)
(***************************************************************************)
ConcurrentThreads == {"t1", "t2"}

ConcurrentCodecs == {o \in Codecs : o.execution_path = qpl_path_software}

ConcurrentBlocks == {Block(Sz(0, 1), "seed0")}

ThreadsInit == InitThreads(ConcurrentThreads) /\ fr = FramingOff

ThreadsNext ==
    \E t \in ConcurrentThreads :
        \/ \E o \in ConcurrentCodecs, b \in ConcurrentBlocks :
              CompressEnter(t, o, b, <<>>)
        \/ \E env \in Envs : CompressGetJob(t, env)
        \/ CompressConfigure(t)
        \/ CompressExecute(t)
        \/ CompressReturn(t)
        \/ \E o \in ConcurrentCodecs :
              UncompressEnter(t, o, [str |-> compressed[t],
                                     input_length |-> compressed[t].size],
                              "default")
        \/ \E env \in Envs : UncompressGetJob(t, env)
        \/ UncompressConfigure(t)
        \/ UncompressExecute(t)
        \/ UncompressReturn(t)
        \/ CallerContinues(t)

SpecThreads == ThreadsInit /\ [][ThreadsNext]_vars

(***************************************************************************)
(* One thread whose calls run to their end: a call that has begun takes    *)
(* its next step, and the backend, which may answer "queues busy" any      *)
(* number of times, answers with another status in the end.                *)
(***************************************************************************)
\* One more "queues busy" answer to a call that has had MaxBusy of them: the
\* loop runs again, and the call stands where it stood.
BusyAgain(t) ==
    /\ pc[t] \in {"Compress_execute", "Uncompress_execute"}
    /\ log[t].busy = MaxBusy
    /\ RetryExecute(BusyAnswer.status)
    /\ UNCHANGED vars

\* qpl_execute_job answers the call of thread t with a status that is not
\* "queues busy".
Answered(t) ==
    /\ CompressExecute(t) \/ UncompressExecute(t)
    /\ local'[t].status # QPL_STS_QUEUES_ARE_BUSY_ERR

FairNext ==
    \E t \in Threads :
        \/ \E o \in ConcurrentCodecs, b \in ConcurrentBlocks :
              CompressEnter(t, o, b, <<>>)
        \/ \E env \in Envs : CompressGetJob(t, env)
        \/ CompressConfigure(t)
        \/ CompressExecute(t)
        \/ CompressReturn(t)
        \/ \E o \in ConcurrentCodecs, inp \in UncompressInputs(compressed[t], {}) :
              UncompressEnter(t, o, inp, "default")
        \/ \E env \in Envs : UncompressGetJob(t, env)
        \/ UncompressConfigure(t)
        \/ UncompressExecute(t)
        \/ UncompressReturn(t)
        \/ BusyAgain(t)
        \/ CallerContinues(t)

Fairness ==
    \A t \in Threads :
        /\ WF_vars(\E env \in Envs : CompressGetJob(t, env))
        /\ WF_vars(CompressConfigure(t))
        /\ WF_vars(CompressReturn(t))
        /\ WF_vars(\E env \in Envs : UncompressGetJob(t, env))
        /\ WF_vars(UncompressConfigure(t))
        /\ WF_vars(UncompressReturn(t))
        /\ WF_vars(Answered(t))

SpecFair == Init /\ [][FairNext]_vars /\ Fairness

(***************************************************************************)
(* Compress by codec instances of every configuration: each execution      *)
(* path, each compression mode, verify on and off, and levels on both      *)
(* sides of 0 and of the sentinel.                                         *)
(***************************************************************************)
\* Values of options_.level, an int the options parser does not validate.
Levels ==
    {-kDefaultCompressionLevel, -1, 0, 1, 9, kDefaultCompressionLevel - 1,
     kDefaultCompressionLevel, kDefaultCompressionLevel + 1}

LevelCodecs ==
    {[IAACompressorOptions EXCEPT !.execution_path = p, !.compression_mode = m,
                                  !.verify = v, !.level = l] :
        p \in execution_paths, m \in compression_modes, v \in BOOLEAN,
        l \in Levels}

LevelsNext ==
    \E t \in Threads :
        \/ \E o \in LevelCodecs, b \in ConcurrentBlocks :
              CompressEnter(t, o, b, <<>>)
        \/ \E env \in Envs : CompressGetJob(t, env)
        \/ CompressConfigure(t)
        \/ CompressExecute(t)
        \/ CompressReturn(t)
        \/ CallerContinues(t)

SpecLevels == Init /\ [][LevelsNext]_vars

(***************************************************************************)
(* Properties.                                                             *)
(***************************************************************************)
Done(t, op) == pc[t] = "done" /\ local[t].op = op

\* The call ran qpl_execute_job, on a context qpl_init_job had initialised:
\* the backend answered within its contract.
OnInitializedJob(t) == log[t].execute > 0 /\ log[t].context = JobInitialized

\* C2: for every n below 2^32, DecodeSize on all the bytes EncodeSize(n) put
\* into an empty buffer succeeds, yields n, and consumes exactly the bytes
\* EncodeSize produced, leaving no input.
C2_FramingRoundTrip ==
    (fr.pc = "decoded" /\ fr.input_length = Len(fr.output)) =>
        /\ fr.dec.ok
        /\ fr.dec.output_length = fr.n
        /\ SzOfNat(fr.dec.used) = fr.output_header_length
        /\ fr.dec.used = Len(fr.output)
        /\ fr.dec.input_length = SzZero

C2_Witness ==
    /\ fr.pc = "decoded"
    /\ fr.input_length = Len(fr.output)
    /\ fr.n = Sz(65535, 65535)
    /\ Len(fr.output) = 5
    /\ fr.dec.output_length = Sz(65535, 65535)

\* C3: whenever Compress, called with an empty output string, returns OK, the
\* varint at the start of the output decodes to the length of the input
\* block, whatever that length is.
C3_PrefixDecodesToInputLength ==
    \A t \in DOMAIN pc :
        (Done(t, "Compress") /\ ret[t] = StatusOK /\ initial_output[t] = <<>>) =>
            LET dec == DecodeSize(compressed[t].bytes, compressed[t].size)
            IN  dec.ok /\ dec.output_length = data[t].size

\* The worst-case capacity of a block of n bytes behind h bytes of prefix
\* fits in 32 bits, so Compress does not clamp it.
CapacityFits(h, n) ==
    SzLeq(SzAdd(SzAdd(h, n), SzOfNat(5 * CeilDiv65535(n))), UINT32_MAX)

\* The largest block size of the round-trip test, 1 << 20.
LargestTestedSize == Sz(16, 0)

\* C1 as stated: Compress of every block of 0 <= n <= N bytes returns OK
\* (N the largest size the test uses), and Uncompress of its output returns
\* the block.
C1_RoundTripFromEmpty ==
    \A t \in DOMAIN pc :
        /\ (/\ Done(t, "Compress")
            /\ initial_output[t] = <<>>
            /\ SzLeq(data[t].size, LargestTestedSize)
            /\ OnInitializedJob(t)) => ret[t] = StatusOK
        /\ (/\ Done(t, "Uncompress")
            /\ initial_output[t] = <<>>
            /\ SzLeq(data[t].size, LargestTestedSize)
            /\ compressed[t].payload.kind = "deflate"
            /\ local[t].str = compressed[t]
            /\ local[t].given_length = compressed[t].size
            /\ local[t].allocator = "default"
            /\ OnInitializedJob(t)) =>
               /\ ret[t] = StatusOK
               /\ uncompressed_length[t] = data[t].size
               /\ uncompressed[t].data = data[t]

\* C1 as amended: for every block of n >= 1 bytes whose worst-case capacity
\* fits in 32 bits and every configuration, Compress into an empty string
\* returns OK, and Uncompress of all of the string it produced returns OK
\* with length n and the bytes of the block (backend answering within its
\* contract, allocator succeeding).
C1_RoundTrip ==
    \A t \in DOMAIN pc :
        /\ (/\ Done(t, "Compress")
            /\ initial_output[t] = <<>>
            /\ data[t].size # SzZero
            /\ CapacityFits(local[t].output_header_length, data[t].size)
            /\ OnInitializedJob(t)) => ret[t] = StatusOK
        /\ (/\ Done(t, "Uncompress")
            /\ initial_output[t] = <<>>
            /\ data[t].size # SzZero
            /\ CapacityFits(SzOfNat(Len(compressed[t].bytes)), data[t].size)
            /\ compressed[t].payload.kind = "deflate"
            /\ local[t].str = compressed[t]
            /\ local[t].given_length = compressed[t].size
            /\ local[t].allocator = "default"
            /\ OnInitializedJob(t)) =>
               /\ ret[t] = StatusOK
               /\ uncompressed_length[t] = data[t].size
               /\ uncompressed[t].ptr = "buffer"
               /\ uncompressed[t].data = data[t]

C1_Witness ==
    \E t \in DOMAIN pc :
        /\ Done(t, "Uncompress")
        /\ ret[t] = StatusOK
        /\ local[t].str = compressed[t]
        /\ local[t].options_.compression_mode = fixed_mode
        /\ data[t].size = Sz(1, 0)
        /\ uncompressed_length[t] = Sz(1, 0)
        /\ uncompressed[t].data = data[t]

\* The input ends before its varint does: it is empty, or every byte of it
\* carries the continuation bit.
TruncatedPrefix(str, input_length) ==
    \/ input_length = SzZero
    \/ /\ SzLeq(input_length, SzOfNat(Len(str.bytes)))
       /\ input_length[2] < 5
       /\ \A i \in 1 .. input_length[2] : str.bytes[i] >= 128

\* C4: Uncompress of an empty input, or of one that ends inside the varint
\* prefix, returns Corruption("size decoding error") without calling the
\* allocator, creating or touching a job, or calling the backend, and writes
\* neither output.
C4_TruncatedInput ==
    \A t \in DOMAIN pc :
        (Done(t, "Uncompress")
         /\ TruncatedPrefix(local[t].str, local[t].given_length)) =>
            /\ ret[t] = Corruption(SIZE_DECODING_ERROR)
            /\ log[t] = NoLog
            /\ job[t] = NoJob
            /\ uncompressed[t] = Unset
            /\ uncompressed_length[t] = UnsetLength

C4_Witness ==
    \E t \in DOMAIN pc :
        /\ Done(t, "Uncompress")
        /\ Len(local[t].str.bytes) = 3
        /\ local[t].given_length = Sz(0, 1)
        /\ local[t].str.bytes[1] >= 128
        /\ ret[t] = Corruption(SIZE_DECODING_ERROR)

\* C5: when the prefix decodes, an allocator that returns nullptr and one
\* that throws both make Uncompress return Corruption("memory allocation
\* error"), with no job looked up or created and the backend never called.
C5_AllocatorFailure ==
    \A t \in DOMAIN pc :
        (/\ Done(t, "Uncompress")
         /\ local[t].decoded
         /\ local[t].allocator \in {"null", "throw"}) =>
            /\ ret[t] = Corruption(MEMORY_ALLOCATION_ERROR)
            /\ log[t] = [NoLog EXCEPT !.allocate = 1]
            /\ job[t] = NoJob

C5_Witness ==
    \E t \in DOMAIN pc :
        /\ Done(t, "Uncompress")
        /\ local[t].allocator = "null"
        /\ local[t].str = compressed[t]
        /\ local[t].given_length = compressed[t].size
        /\ compressed[t].payload.kind = "deflate"
        /\ uncompressed[t] = NullPtr
        /\ ret[t] = Corruption(MEMORY_ALLOCATION_ERROR)

Slot(t, kind, path) ==
    IF kind = "deflate" THEN deflate_job_[t][path] ELSE inflate_job_[t][path]

\* qpl_init_job has run once for every slot that is not empty, and for no
\* other.
InitOnce ==
    \A t \in DOMAIN pc, kind \in {"deflate", "inflate"}, path \in execution_paths :
        init_calls[t][kind][path] = IF Slot(t, kind, path) = nullptr THEN 0 ELSE 1

\* A step of a call whose slot is not empty calls neither qpl_get_job_size
\* nor qpl_init_job.
NoReinit ==
    \A t \in DOMAIN pc :
        (/\ pc[t] \in {"Compress_job", "Uncompress_job"}
         /\ Slot(t, IF pc[t] = "Compress_job" THEN "deflate" ELSE "inflate",
                 local[t].execution_path) # nullptr) =>
            /\ log'[t].get_job_size = 0
            /\ log'[t].make_unique = 0
            /\ log'[t].init_job = 0
            /\ init_calls' = init_calls
            /\ deflate_job_' = deflate_job_
            /\ inflate_job_' = inflate_job_

\* C6: once a call of a thread has created the job of a path, no later
\* Compress (resp. Uncompress) of that thread on that path, by any codec
\* instance, calls qpl_get_job_size or qpl_init_job; each slot sees
\* qpl_init_job once in all.
C6_ContextReuse == []InitOnce /\ [][NoReinit]_vars

C6_Witness ==
    \E t \in DOMAIN pc :
        /\ Done(t, "Compress")
        /\ ret[t] = StatusOK
        /\ log[t].get_job_size = 0
        /\ log[t].init_job = 0
        /\ local[t].options_.compression_mode = fixed_mode
        /\ init_calls[t]["deflate"][local[t].execution_path] = 1

\* The decompressed size of the stream Uncompress hands to the backend.
StreamSize(t) ==
    TrueSize([next_in_ptr |-> local[t].input,
              available_in |-> ToUint32(local[t].input_length)])

\* The input is a block Compress framed, and its prefix decodes to a value
\* that is not the decompressed size of what follows it: another size, or
\* no deflate stream at all.
PrefixMismatch(t) ==
    /\ local[t].str.payload.kind # "none"
    /\ \/ local[t].input.kind # "deflate"
       \/ local[t].encoded_output_length # StreamSize(t)

\* What Uncompress returns for a mismatching input, from the input alone.
MismatchOutcome(t) ==
    IF ToUint32(local[t].input_length) = SzZero
    THEN Corruption(QPL_STATUS(QPL_STS_EMPTY_INPUT))
    ELSE IF local[t].input.kind # "deflate"
    THEN Corruption(QPL_STATUS(QPL_STS_BAD_STREAM))
    ELSE IF SzLess(local[t].encoded_output_length, StreamSize(t))
    THEN Corruption(QPL_STATUS(QPL_STS_MORE_OUTPUT_NEEDED))
    ELSE Corruption(SIZE_MISMATCH)

\* A call that reached qpl_execute_job returned Corruption with the backend's
\* status or Corruption("size mismatch").
MismatchReported(t) ==
    /\ ret[t] # StatusOK
    /\ ret[t] \in {Corruption(QPL_STATUS(log[t].final_status)),
                   Corruption(SIZE_MISMATCH)}
    /\ uncompressed_length[t] = UnsetLength

\* C7: when the prefix decodes to a value other than the decompressed size
\* of the payload and the allocator succeeds, Uncompress returns Corruption
\* with the backend's status or Corruption("size mismatch"), never OK.
C7_CorruptedPrefix ==
    \A t \in DOMAIN pc :
        (/\ Done(t, "Uncompress")
         /\ local[t].decoded
         /\ local[t].allocator = "default"
         /\ log[t].execute > 0
         /\ PrefixMismatch(t)) => MismatchReported(t)

\* The same of the calls that run the job on an initialised context, where
\* the result is moreover a function of the input.
CorruptedPrefixOnInitializedJob ==
    \A t \in DOMAIN pc :
        (/\ Done(t, "Uncompress")
         /\ local[t].decoded
         /\ local[t].allocator = "default"
         /\ OnInitializedJob(t)
         /\ PrefixMismatch(t)) =>
            MismatchReported(t) /\ ret[t] = MismatchOutcome(t)

\* C8: the capacity Compress gives the output before executing is
\* min(h + n + 5 * ceil(n / 65535), 2^32 - 1) for the recorded prefix length
\* h; the backend is offered capacity - h bytes; on success the output is
\* h + bytes written long, which is no more than the capacity.
C8_OutputSizing ==
    \A t \in DOMAIN pc :
        local[t].op = "Compress" =>
            LET h == local[t].output_header_length
                n == local[t].input.size
                capacity ==
                    SzMin(SzAdd(SzAdd(h, n), SzOfNat(5 * CeilDiv65535(n))),
                          UINT32_MAX)
            IN  /\ local[t].output_length = capacity
                /\ pc[t] \in {"Compress_job", "Compress_configure",
                              "Compress_execute"} =>
                       compressed[t].size = capacity
                /\ pc[t] \in {"Compress_execute", "Compress_return"} =>
                       job[t].available_out = SzSub(capacity, h)
                /\ (pc[t] = "done" /\ ret[t] = StatusOK) =>
                       /\ job[t].available_out = SzSub(capacity, h)
                       /\ compressed[t].size = SzAdd(h, log[t].total_out)
                       /\ SzLeq(compressed[t].size, capacity)

C8_Witness ==
    \E t \in DOMAIN pc :
        /\ Done(t, "Compress")
        /\ ret[t] = StatusOK
        /\ data[t].size = Sz(65535, 65535)
        /\ local[t].output_length = UINT32_MAX
        /\ job[t].available_out = Sz(65535, 65530)
        /\ compressed[t].size = SzAdd(Sz(0, 5), log[t].total_out)

\* A thread stands in its retry loop only with a busy status, leaves it only
\* with another, and the result of a call that executed is the mapping of
\* the one status that was not busy, the last.
BusyNotSurfaced ==
    \A t \in DOMAIN pc :
        /\ pc[t] \in {"Compress_execute", "Uncompress_execute"} =>
               local[t].status = QPL_STS_QUEUES_ARE_BUSY_ERR
        /\ pc[t] \in {"Compress_return", "Uncompress_return"} =>
               /\ local[t].status # QPL_STS_QUEUES_ARE_BUSY_ERR
               /\ local[t].status = log[t].final_status
        /\ (pc[t] = "done" /\ log[t].execute > 0) =>
               /\ log[t].final_status # QPL_STS_QUEUES_ARE_BUSY_ERR
               /\ log[t].execute = log[t].busy + 1
               /\ ret[t] # Corruption(QPL_STATUS(QPL_STS_QUEUES_ARE_BUSY_ERR))
               /\ ret[t] = StatusOK => log[t].final_status = QPL_STS_OK
               /\ log[t].final_status # QPL_STS_OK =>
                      ret[t] = Corruption(QPL_STATUS(log[t].final_status))

\* The next thing a thread in its retry loop does is call qpl_execute_job
\* again, on the job as it was configured.
BusyRetried ==
    \A t \in DOMAIN pc :
        (/\ pc[t] \in {"Compress_execute", "Uncompress_execute"}
         /\ <<pc[t], local[t], job[t], log[t], ret[t]>>'
                # <<pc[t], local[t], job[t], log[t], ret[t]>>) =>
            /\ log'[t].execute = log[t].execute + 1
            /\ [job'[t] EXCEPT !.total_out = SzZero]
                   = [job[t] EXCEPT !.total_out = SzZero]
            /\ ret'[t] = ret[t]

\* C9: every "queues busy" answer is followed at once by another call of
\* qpl_execute_job on the same job; the status a call maps to its result is
\* the first that is not busy; no result derives from a busy status.
C9_BusyRetried == []BusyNotSurfaced /\ [][BusyRetried]_vars

C9_Witness ==
    \E t \in DOMAIN pc :
        /\ Done(t, "Uncompress")
        /\ log[t].busy >= 2
        /\ log[t].execute = log[t].busy + 1
        /\ ret[t] = StatusOK

\* C10: Compress of a zero-length block offers the backend an empty input;
\* the backend answering it within its contract (status 50), Compress
\* returns Corruption carrying that status, on every call, and never OK.
C10_EmptyInput ==
    \A t \in DOMAIN pc :
        (/\ Done(t, "Compress")
         /\ data[t].size = SzZero
         /\ log[t].execute > 0) =>
            /\ job[t].available_in = SzZero
            /\ OnInitializedJob(t) => log[t].final_status = QPL_STS_EMPTY_INPUT
            /\ log[t].final_status = QPL_STS_EMPTY_INPUT =>
                   ret[t] = Corruption(<<"QPL status ", "50">>)

C10_Witness ==
    \E t \in DOMAIN pc :
        /\ Done(t, "Compress")
        /\ data[t].size = SzZero
        /\ local[t].execution_path = qpl_path_software
        /\ log[t].busy > 0
        /\ init_calls[t]["deflate"][qpl_path_software] = 1
        /\ log[t].init_job = 0
        /\ ret[t] = Corruption(<<"QPL status ", "50">>)

\* C11: every call that reaches qpl_execute_job does so on a context for
\* which qpl_init_job returned ok, also after an earlier call of the thread
\* failed in creating it; every cache slot that is not empty holds an
\* initialised context.
C11_ExecuteOnInitializedJob ==
    \A t \in DOMAIN pc :
        /\ log[t].execute > 0 => log[t].context = JobInitialized
        /\ \A kind \in {"deflate", "inflate"}, path \in execution_paths :
               Slot(t, kind, path) \in {nullptr, JobInitialized}

\* C12: Uncompress returns OK only if the final status of the backend is ok
\* and the bytes it wrote are as many as the prefix says; with status ok and
\* another count it returns Corruption("size mismatch"); on OK the length
\* reported is the value of the prefix, which is the size asked of the
\* allocator.
C12_SizeCheck ==
    \A t \in DOMAIN pc :
        Done(t, "Uncompress") =>
            /\ ret[t] = StatusOK =>
                   /\ log[t].execute > 0
                   /\ log[t].final_status = QPL_STS_OK
                   /\ log[t].total_out = local[t].encoded_output_length
                   /\ uncompressed_length[t] = local[t].encoded_output_length
                   /\ uncompressed[t].ptr = "buffer"
                   /\ uncompressed[t].capacity = local[t].encoded_output_length
            /\ (/\ log[t].execute > 0
                /\ log[t].final_status = QPL_STS_OK
                /\ log[t].total_out # local[t].encoded_output_length) =>
                   ret[t] = Corruption(SIZE_MISMATCH)
            /\ (/\ log[t].execute > 0
                /\ log[t].final_status = QPL_STS_OK
                /\ log[t].total_out = local[t].encoded_output_length) =>
                   ret[t] = StatusOK

C12_Witness ==
    \E t \in DOMAIN pc :
        /\ Done(t, "Uncompress")
        /\ local[t].str = compressed[t]
        /\ local[t].given_length = SzOfNat(Len(compressed[t].bytes) + 8)
        /\ local[t].input.kind = "deflate"
        /\ log[t].final_status = QPL_STS_OK
        /\ SzLess(log[t].total_out, local[t].encoded_output_length)
        /\ ret[t] = Corruption(SIZE_MISMATCH)

\* C13: in Compress and in Uncompress, a status of qpl_execute_job that is
\* neither ok nor busy ends the retry loop (qpl_execute_job is not called
\* again in that call) and the call returns Corruption carrying that status,
\* never OK.
C13_StatusMapping ==
    \A t \in DOMAIN pc :
        (/\ log[t].execute > 0
         /\ log[t].final_status \notin {QPL_STS_OK, QPL_STS_QUEUES_ARE_BUSY_ERR}) =>
            /\ pc[t] \in {"Compress_return", "Uncompress_return", "done"}
            /\ log[t].execute = log[t].busy + 1
            /\ pc[t] = "done" =>
                   /\ ret[t] = Corruption(QPL_STATUS(log[t].final_status))
                   /\ ret[t] # StatusOK

C13_Witness ==
    \E t \in DOMAIN pc :
        /\ Done(t, "Uncompress")
        /\ log[t].busy = 1
        /\ log[t].execute = 2
        /\ log[t].final_status = QPL_STS_BAD_STREAM
        /\ ret[t] = Corruption(<<"QPL status ", "214">>)

\* C14: in the call that finds the slot of its (thread, path, kind) empty, a
\* status of qpl_get_job_size other than ok makes the call return Corruption
\* with that status, a failed scratch allocation Corruption("memory
\* allocation error"), a status of qpl_init_job other than ok Corruption with
\* that status; in none of the three is qpl_execute_job called in that call.
C14_CreationErrors ==
    \A t \in DOMAIN pc :
        log[t].get_job_size = 1 =>
            /\ log[t].get_job_size_status # QPL_STS_OK =>
                   /\ pc[t] = "done"
                   /\ ret[t] = Corruption(QPL_STATUS(log[t].get_job_size_status))
                   /\ log[t].make_unique = 0 /\ log[t].init_job = 0
                   /\ log[t].execute = 0
            /\ (log[t].make_unique = 1 /\ log[t].init_job = 0) =>
                   /\ pc[t] = "done"
                   /\ ret[t] = Corruption(MEMORY_ALLOCATION_ERROR)
                   /\ log[t].execute = 0
            /\ (log[t].init_job = 1 /\ log[t].init_job_status # QPL_STS_OK) =>
                   /\ pc[t] = "done"
                   /\ ret[t] = Corruption(QPL_STATUS(log[t].init_job_status))
                   /\ log[t].execute = 0

C14_Witness ==
    \E t \in DOMAIN pc :
        /\ Done(t, "Uncompress")
        /\ log[t].allocate = 1
        /\ log[t].get_job_size = 1
        /\ log[t].init_job = 1
        /\ log[t].init_job_status = QPL_STS_INIT_ERR
        /\ log[t].execute = 0
        /\ inflate_job_[t][local[t].execution_path] = JobInitFailed
        /\ ret[t] = Corruption(QPL_STATUS(QPL_STS_INIT_ERR))

KindOf(t) == IF local[t].op = "Compress" THEN "deflate" ELSE "inflate"

\* The call of thread t has a job in hand: it is past the lookup, or it has
\* executed.
UsesJob(t) ==
    \/ pc[t] \in {"Compress_configure", "Compress_execute", "Compress_return",
                  "Uncompress_configure", "Uncompress_execute",
                  "Uncompress_return"}
    \/ pc[t] = "done" /\ log[t].execute > 0

\* The job a call has in hand is the one in the slot of its own thread, kind
\* and path, made by the qpl_init_job that thread called for that kind and
\* path.
UsesOwnSlot ==
    \A t \in DOMAIN pc :
        UsesJob(t) =>
            /\ Slot(t, KindOf(t), local[t].execution_path) # nullptr
            /\ init_calls[t][KindOf(t)][local[t].execution_path] = 1
            /\ log[t].execute > 0 =>
                   log[t].context = Slot(t, KindOf(t), local[t].execution_path)

\* The caches of a thread change only in a step of that thread, in its
\* lookup.
CachesConfined ==
    \A u \in DOMAIN pc :
        (deflate_job_'[u] # deflate_job_[u] \/ inflate_job_'[u] # inflate_job_[u]) =>
            /\ pc[u] \in {"Compress_job", "Uncompress_job"}
            /\ pc'[u] # pc[u]

\* C15: with threads calling Compress and Uncompress concurrently, in every
\* interleaving a thread configures and executes only jobs of its own
\* caches, which it created itself, and a step of one thread never changes
\* the caches of another.
C15_ThreadConfinement == []UsesOwnSlot /\ [][CachesConfined]_vars

C15_Witness ==
    /\ pc["t1"] = "Compress_execute"
    /\ pc["t2"] = "Compress_execute"
    /\ log["t1"].busy = 1
    /\ log["t2"].busy = 1
    /\ deflate_job_["t1"][qpl_path_software] = JobInitialized
    /\ deflate_job_["t2"][qpl_path_software] = JobInitFailed
    /\ inflate_job_["t1"][qpl_path_software] = JobInitialized
    /\ inflate_job_["t2"][qpl_path_software] = nullptr

\* A slot changes only in the lookup of a call of its kind and path, from
\* empty, with one qpl_init_job for that kind and path; the other five slots
\* of the thread stay as they are.
SlotsKept ==
    \A t \in DOMAIN pc, kind \in {"deflate", "inflate"}, path \in execution_paths :
        Slot(t, kind, path)' # Slot(t, kind, path) =>
            /\ pc[t] = IF kind = "deflate" THEN "Compress_job" ELSE "Uncompress_job"
            /\ local[t].execution_path = path
            /\ Slot(t, kind, path) = nullptr
            /\ init_calls'[t][kind][path] = init_calls[t][kind][path] + 1
            /\ \A k \in {"deflate", "inflate"}, p \in execution_paths :
                   <<k, p>> # <<kind, path>> =>
                       /\ Slot(t, k, p)' = Slot(t, k, p)
                       /\ init_calls'[t][k][p] = init_calls[t][k][p]

\* C16: the two caches are disjoint with one slot per path: as the path
\* varies from call to call, a compress job on path p runs only on the job
\* that qpl_init_job(p) made in deflate_job_, a decompress job on path p only
\* on the one in inflate_job_, and creating the job of one (path, kind)
\* leaves the other five slots of the thread unchanged.
C16_CacheKeying == []UsesOwnSlot /\ [][SlotsKept]_vars

C16_Witness ==
    \E t \in DOMAIN pc :
        /\ Done(t, "Compress")
        /\ ret[t] = StatusOK
        /\ local[t].execution_path = qpl_path_hardware
        /\ log[t].init_job = 1
        /\ deflate_job_[t] = [EmptyCache EXCEPT ![qpl_path_software] = JobInitialized,
                                               ![qpl_path_hardware] = JobInitialized]
        /\ inflate_job_[t] = [EmptyCache EXCEPT ![qpl_path_software] = JobInitialized]

InCall(t) == pc[t] \notin {"idle", "done"}

\* A call leaves its retry loop only by a call of qpl_execute_job whose
\* answer is not "queues busy"; on a busy answer it stays in the loop,
\* however many it has had.
LeavesLoopOnAnswer ==
    \A t \in DOMAIN pc :
        pc[t] \in {"Compress_execute", "Uncompress_execute"} =>
            /\ pc'[t] \in {pc[t], "Compress_return", "Uncompress_return"}
            /\ pc'[t] # pc[t] =>
                   /\ local'[t].status # QPL_STS_QUEUES_ARE_BUSY_ERR
                   /\ log'[t].execute = log[t].execute + 1
            /\ local'[t].status = QPL_STS_QUEUES_ARE_BUSY_ERR => pc'[t] = pc[t]

\* C17: the backend answering every call of qpl_execute_job with another
\* status than "queues busy" in the end, every call of Compress and of
\* Uncompress returns; nothing but such an answer ends the retry loop.
C17_RetryTerminates ==
    /\ \A t \in Threads : InCall(t) ~> (pc[t] = "done")
    /\ [][LeavesLoopOnAnswer]_vars

C17_Witness ==
    \E t \in DOMAIN pc :
        /\ Done(t, "Compress")
        /\ log[t].busy = MaxBusy
        /\ log[t].execute = MaxBusy + 1
        /\ log[t].context = JobInitialized
        /\ ret[t] = StatusOK

\* C18: when Uncompress fails after its allocation succeeded (the job could
\* not be created, the backend answered an error, the sizes differ), the
\* buffer is not freed by Uncompress and is what the caller's output pointer
\* holds, for the caller to free, and the caller's output length is not
\* written; when the prefix does not decode, neither is written.
C18_BufferOnFailure ==
    \A t \in DOMAIN pc :
        (Done(t, "Uncompress") /\ ret[t] # StatusOK) =>
            /\ ~local[t].decoded =>
                   /\ log[t].allocate = 0
                   /\ uncompressed[t] = Unset
                   /\ uncompressed_length[t] = UnsetLength
            /\ (local[t].decoded /\ local[t].allocator = "default") =>
                   /\ log[t].allocate = 1
                   /\ uncompressed[t].ptr = "buffer"
                   /\ uncompressed[t].capacity = local[t].encoded_output_length
                   /\ uncompressed_length[t] = UnsetLength

C18_Witness ==
    \E t \in DOMAIN pc :
        /\ Done(t, "Uncompress")
        /\ local[t].allocator = "default"
        /\ log[t].allocate = 1
        /\ log[t].make_unique = 1
        /\ log[t].init_job = 0
        /\ ret[t] = Corruption(MEMORY_ALLOCATION_ERROR)
        /\ uncompressed[t].ptr = "buffer"
        /\ uncompressed[t].capacity = Sz(1, 0)
        /\ uncompressed_length[t] = UnsetLength

\* Compress returned OK into an output that was empty: the output is h bytes
\* of a varint that decodes to the length of the block, then the payload the
\* backend wrote at offset h, h + total_out bytes in all.
FramedOutput(t) ==
    LET h == local[t].output_header_length
        dec == DecodeSize(compressed[t].bytes, SzOfNat(Len(compressed[t].bytes)))
    IN  /\ ret[t] = StatusOK
        /\ compressed[t].size = SzAdd(h, log[t].total_out)
        /\ SzOfNat(Len(compressed[t].bytes)) = h
        /\ dec.ok /\ dec.used = Len(compressed[t].bytes)
        /\ dec.output_length = data[t].size
        /\ job[t].next_out_ptr = h
        /\ compressed[t].payload.kind # "none"
        /\ compressed[t].payload.kind = "deflate" =>
               compressed[t].payload.clen = log[t].total_out

\* C19: when Compress is called with an empty output and the final status of
\* the backend is ok, the output on return is h + bytes written long, its
\* first h bytes are the varint encoding of the input length, and the rest is
\* the payload the backend wrote at offset h.
C19_CompressPostState ==
    \A t \in DOMAIN pc :
        (/\ Done(t, "Compress")
         /\ initial_output[t] = <<>>
         /\ log[t].execute > 0
         /\ log[t].final_status = QPL_STS_OK) => FramedOutput(t)

\* The same of the blocks shorter than 2^32 bytes.
CompressPostStateBelow4GiB ==
    \A t \in DOMAIN pc :
        (/\ Done(t, "Compress")
         /\ initial_output[t] = <<>>
         /\ SzLeq(data[t].size, UINT32_MAX)
         /\ log[t].execute > 0
         /\ log[t].final_status = QPL_STS_OK) => FramedOutput(t)

PassedToBackend(t) ==
    /\ local[t].op = "Compress"
    /\ \/ pc[t] = "Compress_execute" /\ log[t].execute > 0
       \/ pc[t] = "Compress_return"
       \/ pc[t] = "done" /\ log[t].execute > 0

\* C21: for every configured level, the level of the job Compress passes to
\* the backend is the backend's default level when the configured level is 0
\* or the sentinel, and its high level for every other value, a negative one
\* included; the level passed is this function of the configured level
\* alone, whatever the execution path, compression mode and verify of the
\* codec.
C21_LevelMapping ==
    \A t \in DOMAIN pc :
        local[t].op = "Compress" =>
            LET configured == local[t].options_.level
                expected == IF configured \in {0, kDefaultCompressionLevel}
                            THEN qpl_default_level
                            ELSE qpl_high_level
            IN  /\ local[t].level = expected
                /\ PassedToBackend(t) =>
                       /\ job[t].op = "qpl_op_compress"
                       /\ job[t].level = expected

C21_Witness ==
    \E t \in DOMAIN pc :
        /\ Done(t, "Compress")
        /\ log[t].execute > 0
        /\ local[t].options_.level = -1
        /\ local[t].options_.execution_path = qpl_path_hardware
        /\ local[t].options_.compression_mode = fixed_mode
        /\ local[t].options_.verify
        /\ job[t].level = qpl_high_level

====
